---- MODULE Spec2Model ----
(***************************************************************************)
(* Model of the Rinkel -> Salesforce webhook server (webhook_server.py).   *)
(*                                                                         *)
(* Texts (phone numbers, subjects, descriptions) are sequences of atoms:   *)
(* a phone number is a sequence of one-character strings, a description a  *)
(* sequence of literal fragments, "\n" separators and embedded values.     *)
(* Python dicts are functions whose DOMAIN is the set of keys present.     *)
(***************************************************************************)
EXTENDS Integers, Sequences, FiniteSets, TLC

VARIABLES tasks, ce, ci, ft, fn

vars == <<tasks, ce, ci, ft, fn>>

\* ------------------------------------------------------------------ bounds
\* webhook deliveries (call-ended and call-insights together) in one run
MaxEvents == 2

\* ------------------------------------------------------- dict/text helpers
EmptyDict == <<>>

Has(d, k) == k \in DOMAIN d

\* a dict is falsy when it has no key
IsEmpty(d) == DOMAIN d = {}

\* d.get(k, default)
Get(d, k, default) == IF k \in DOMAIN d THEN d[k] ELSE default

\* d.update(other)
DictUpdate(d, other) ==
  [k \in (DOMAIN d) \cup (DOMAIN other) |-> IF k \in DOMAIN other THEN other[k] ELSE d[k]]

\* sep.join(lines) for a sequence of texts
RECURSIVE Join(_, _)
Join(lines, sep) ==
  IF lines = <<>> THEN <<>>
  ELSE IF Len(lines) = 1 THEN lines[1]
  ELSE lines[1] \o sep \o Join(Tail(lines), sep)

\* sub occurs in text as a contiguous part
Contains(text, sub) ==
  \E i \in 0..(Len(text) - Len(sub)) : SubSeq(text, i + 1, i + Len(sub)) = sub

\* number of positions at which sub occurs in text
Occurrences(text, sub) ==
  Cardinality({i \in 0..(Len(text) - Len(sub)) : SubSeq(text, i + 1, i + Len(sub)) = sub})

NL == <<"\n">>

\* ----------------------------------------------------------- phone numbers
Digits == {"0", "1", "2", "3", "4", "5", "6", "7", "8", "9"}

IsDigit(c) == c \in Digits

\* variant: the country code is cut off without the leading zero
normalize_phone_nozero(phone) ==
  LET digits == SelectSeq(phone, IsDigit)
  IN IF Len(digits) >= 11 /\ digits[1] = "3" /\ digits[2] = "1"
     THEN SubSeq(digits, 3, Len(digits))
     ELSE digits

\* variant: the country code is replaced only from 12 digits on
normalize_phone_long(phone) ==
  LET digits == SelectSeq(phone, IsDigit)
  IN IF Len(digits) >= 12 /\ digits[1] = "3" /\ digits[2] = "1"
     THEN <<"0">> \o SubSeq(digits, 3, Len(digits))
     ELSE digits

\* lines 118-123
normalize_phone(phone) ==
  LET digits == SelectSeq(phone, IsDigit)
  IN IF Len(digits) >= 11 /\ digits[1] = "3" /\ digits[2] = "1"
     THEN <<"0">> \o SubSeq(digits, 3, Len(digits))
     ELSE digits

build_like_pattern(phone_digits) ==
  LET significant == IF Len(phone_digits) >= 9
                     THEN SubSeq(phone_digits, Len(phone_digits) - 8, Len(phone_digits))
                     ELSE phone_digits
  IN <<"%">> \o Join([i \in 1..Len(significant) |-> <<significant[i]>>], <<"%">>) \o <<"%">>

\* SOQL LIKE with the % wildcard
RECURSIVE Like(_, _)
Like(s, p) ==
  IF p = <<>> THEN s = <<>>
  ELSE IF Head(p) = "%"
       THEN Like(s, Tail(p)) \/ (s # <<>> /\ Like(Tail(s), p))
       ELSE s # <<>> /\ Head(s) = Head(p) /\ Like(Tail(s), Tail(p))

\* text literal helper: a phone number given as its characters
Anoniem == <<"a", "n", "o", "n", "i", "e", "m">>
Onbekend == <<"o", "n", "b", "e", "k", "e", "n", "d">>

\* ------------------------------------------------- upstream CDR responses
\* An HTTP response of the Rinkel API: an error (exception in requests.get /
\* raise_for_status) or a JSON body whose "data" member is the CDR.
RespError == [status |-> "error"]

RespOk(cdr) == [status |-> "ok", data |-> cdr]

PhoneE164 == <<"+", "3", "1", "6", "1", "2", "3", "4", "5", "6", "7", "8">>
PhoneLocalized == <<"0", "6", " ", "1", "2", "3", "4", "5", "6", "7", "8">>
PhoneCallee == <<"0", "1", "8", "3", "6", "4", "6", "3", "5", "3">>
PhoneOne == <<"+", "3", "1", "1", "8", "3", "6", "4", "6", "3", "5", "3">>
PhoneNone == <<"0", "6", "9", "9", "9", "9", "9", "9", "9", "9">>

CdrComplete ==
  [externalNumber |-> [e164 |-> PhoneE164, localized |-> PhoneLocalized],
   direction |-> "inbound", duration |-> 65,
   user |-> [fullName |-> "Kristel"],
   internalNumber |-> [localizedNumber |-> PhoneCallee],
   callRecording |-> [playUrl |-> "https://rec/1"],
   date |-> "2026-02-22T19:58:00Z"]

CdrE164Only ==
  [externalNumber |-> [e164 |-> PhoneOne], direction |-> "outbound", duration |-> 7]

CdrAnonymous ==
  [externalNumber |-> [anonymous |-> TRUE], direction |-> "inbound", duration |-> 0]

\* not yet written upstream: no externalNumber at all
CdrIncomplete == [direction |-> "inbound", duration |-> 0]

\* localized filled in, e164 not yet
CdrLocalizedOnly ==
  [externalNumber |-> [localized |-> PhoneLocalized], direction |-> "inbound", duration |-> 65]

\* externalNumber present, its members still empty
CdrBlank ==
  [externalNumber |-> [e164 |-> <<>>, anonymous |-> FALSE], direction |-> "outbound",
   duration |-> 0]

Cdrs == {CdrComplete, CdrE164Only, CdrAnonymous, CdrIncomplete, CdrLocalizedOnly, CdrBlank}

Responses == {RespError} \cup {RespOk(c) : c \in Cdrs}

\* ------------------------------------------------- enrich_data_from_cdr
MaxPogingen == 3

\* line 67 without the test of the anonymous flag
CdrNotReady_noanon(ext, poging) ==
  /\ Get(ext, "e164", <<>>) = <<>>
  /\ poging < 2

\* the `continue` condition of line 67
CdrNotReady(ext, poging) ==
  /\ Get(ext, "e164", <<>>) = <<>>
  /\ ~Get(ext, "anonymous", FALSE)
  /\ poging < 2

\* lines 71-95: the result dict built from a CDR
CdrResult(cdr) ==
  LET ext == Get(cdr, "externalNumber", EmptyDict)
      user == Get(cdr, "user", EmptyDict)
      internal == Get(cdr, "internalNumber", EmptyDict)
      recording == Get(cdr, "callRecording", EmptyDict)
      caller == IF Get(ext, "anonymous", FALSE) THEN Anoniem
                ELSE IF Get(ext, "localized", <<>>) # <<>> THEN ext["localized"]
                ELSE Get(ext, "e164", <<>>)
      base == [callerNumber |-> caller,
               direction |-> Get(cdr, "direction", "inbound"),
               duration |-> Get(cdr, "duration", 0),
               datetime_str |-> Get(cdr, "date", "")]
      withAgent == IF ~IsEmpty(user)
                   THEN [agentName |-> Get(user, "fullName", "")] ELSE EmptyDict
      withCallee == IF ~IsEmpty(internal)
                    THEN [calleeNumber |->
                            IF Get(internal, "localizedNumber", <<>>) # <<>>
                            THEN internal["localizedNumber"]
                            ELSE Get(internal, "number", <<>>)]
                    ELSE EmptyDict
      withRec == IF ~IsEmpty(recording)
                 THEN [recordingUrl |-> Get(recording, "playUrl", "")] ELSE EmptyDict
  IN DictUpdate(DictUpdate(DictUpdate(base, withAgent), withCallee), withRec)

\* one pass through the body of the for-loop (lines 55-104) with the
\* response the API gave: either the loop goes on or the function returns
FetchAttempt(poging, resp) ==
  IF resp.status = "error" THEN [ret |-> FALSE]
  ELSE LET ext == Get(resp.data, "externalNumber", EmptyDict)
       IN IF CdrNotReady(ext, poging) THEN [ret |-> FALSE]
          ELSE [ret |-> TRUE, result |-> CdrResult(resp.data)]

RECURSIVE EnrichLoop(_, _)
EnrichLoop(poging, resps) ==
  IF poging >= MaxPogingen THEN EmptyDict
  ELSE LET a == FetchAttempt(poging, resps[poging + 1])
       IN IF a.ret THEN a.result ELSE EnrichLoop(poging + 1, resps)

\* enrich_data_from_cdr, given the responses the API gives to the attempts
enrich_data_from_cdr(resps) == EnrichLoop(0, resps)

\* ------------------------------------------------- records of the store
\* WebOrder__c records, newest first (ORDER BY CreatedDate DESC); "phone" is
\* the configured phone field and may be absent (null)
WebOrders ==
  << [Id |-> "W1", phone |-> <<"0", "6", " ", "1", "2", "3", "4", "5", "6", "7", "8">>],
     [Id |-> "W2", phone |-> <<"+", "3", "1", " ", "6", "-", "1", "2", "3", "4", "5", "6", "7", "8">>],
     [Id |-> "W3", phone |-> <<"0", "1", "8", "3", " ", "6", "4", "6", " ", "3", "5", "3">>],
     [Id |-> "W4", phone |-> <<"0", "6", " ", "1", "2", "3", "4", "5", "6", "7", "9">>],
     [Id |-> "W5", phone |-> <<"1", "0", "6", " ", "1", "2", "3", "4", "5", "6", "7", "8">>],
     [Id |-> "W6"] >>

QueryLimit == 200

\* first n elements of a sequence (LIMIT n)
Limit(seq, n) == IF Len(seq) <= n THEN seq ELSE SubSeq(seq, 1, n)

\* sf.query of line 159: the records whose phone field is LIKE the pattern
WebOrderQuery(sf, like_pattern) ==
  LET Matches(r) == Has(r, "phone") /\ Like(r.phone, like_pattern)
  IN Limit(SelectSeq(sf, Matches), QueryLimit)

\* the loop of lines 162-170: the ids of the candidates whose normalized
\* phone field equals phone_digits, in the order of the candidates, each id
\* once (seen_ids)
ExactMatches(candidates, phone_digits) ==
  LET Matches(j) == normalize_phone(Get(candidates[j], "phone", <<>>)) = phone_digits
      Seen(j) == \E i \in 1..(j - 1) : candidates[i].Id = candidates[j].Id /\ Matches(i)
      Kept(j) == Matches(j) /\ ~Seen(j)
      kept == SelectSeq([j \in 1..Len(candidates) |-> j], Kept)
  IN [n \in 1..Len(kept) |-> candidates[kept[n]].Id]

\* sf is the content of the WebOrder store the connection reaches
find_weborders_by_phone(sf, phone) ==
  LET phone_digits == normalize_phone(phone)
  IN IF phone_digits = <<>> THEN <<>>
     ELSE ExactMatches(WebOrderQuery(sf, build_like_pattern(phone_digits)), phone_digits)

\* variant: the lookup is sent for an empty identifier too
find_tasks_by_rinkel_id_noguard(store, rinkel_call_id) ==
  LET Ids == [j \in 1..Len(store) |-> j]
      Matches(j) == store[j].CallObject = rinkel_call_id
  IN Limit(SelectSeq(Ids, Matches), QueryLimit)

\* find_tasks_by_rinkel_id against the Task records of the store; a Task's
\* Id is its index in the store
find_tasks_by_rinkel_id(store, rinkel_call_id) ==
  IF rinkel_call_id = "" THEN <<>>
  ELSE LET Ids == [j \in 1..Len(store) |-> j]
           Matches(j) == store[j].CallObject = rinkel_call_id
       IN Limit(SelectSeq(Ids, Matches), QueryLimit)

\* ------------------------------------------------- build_task
\* variant: the table without the voicemail code
CAUSE_LABELS_short ==
  [OUTSIDE_OPERATION_TIMES |-> "Buiten openingstijden",
   NO_ANSWER |-> "Niet opgenomen",
   BUSY |-> "In gesprek",
   REJECTED |-> "Geweigerd"]

CAUSE_LABELS ==
  [OUTSIDE_OPERATION_TIMES |-> "Buiten openingstijden",
   NO_ANSWER |-> "Niet opgenomen",
   BUSY |-> "In gesprek",
   REJECTED |-> "Geweigerd",
   VOICEMAIL |-> "Voicemail"]

\* the ISO timestamps the model uses, with their rendering in Europe/Amsterdam
DatetimeTable ==
  [x \in {"2026-02-22T19:58:00Z"} |-> [tijdstip |-> "22 februari 20:58", date |-> "2026-02-22"]]

format_datetime_nl(datetime_str) ==
  IF datetime_str = "" THEN ""
  ELSE IF datetime_str \in DOMAIN DatetimeTable THEN DatetimeTable[datetime_str].tijdstip
  ELSE ""

\* a.get(k1) or a.get(k2) or a.get(k3, default), for values whose falsy
\* value is `falsy`
GetOr3(d, k1, k2, k3, falsy, default) ==
  IF Get(d, k1, falsy) # falsy THEN d[k1]
  ELSE IF Get(d, k2, falsy) # falsy THEN d[k2]
  ELSE Get(d, k3, default)

\* the call identifier of an event (lines 208, 288, 337)
CallId(data) == GetOr3(data, "id", "callId", "call_id", "", "")

\* lines 263-264 done unconditionally
WithWhatId_always(task, weborder_id) == DictUpdate(task, [WhatId |-> weborder_id])

\* lines 263-264: the link to the WebOrder is set only for a WebOrder id
WithWhatId(task, weborder_id) ==
  IF weborder_id # "" THEN DictUpdate(task, [WhatId |-> weborder_id]) ELSE task

\* (the en dash of the answered subject, line 237, is written "-" here)
build_task(call_data, weborder_id) ==
  LET direction == Get(call_data, "direction", "inbound")
      duration == GetOr3(call_data, "duration", "callDuration", "call_duration", 0, 0)
      caller == IF Get(call_data, "callerNumber", <<>>) # <<>> THEN call_data["callerNumber"]
                ELSE Get(call_data, "caller_number", Onbekend)
      callee == IF Get(call_data, "calleeNumber", <<>>) # <<>> THEN call_data["calleeNumber"]
                ELSE Get(call_data, "callee_number", <<>>)
      rinkel_id == CallId(call_data)
      agent == IF Get(call_data, "agentName", "") # "" THEN call_data["agentName"]
               ELSE Get(call_data, "agent_name", "")
      cause == Get(call_data, "cause", "")
      datetime_str == IF Get(call_data, "datetime_str", "") # "" THEN call_data["datetime_str"]
                      ELSE Get(call_data, "datetime", "")
      richting_nl == IF direction = "inbound" THEN "Inkomend" ELSE "Uitgaand"
      minuten == duration \div 60
      seconden == duration % 60
      duur_str == <<ToString(minuten), "m ", ToString(seconden), "s">>
      tijdstip == format_datetime_nl(datetime_str)
      activity_date == IF datetime_str \in DOMAIN DatetimeTable
                       THEN DatetimeTable[datetime_str].date ELSE ""
      suffix == IF tijdstip # "" THEN <<" ", tijdstip>> ELSE <<>>
      subject == IF cause = "OUTSIDE_OPERATION_TIMES"
                 THEN <<"Gemist (buiten openingstijden) - ">> \o caller \o suffix
                 ELSE IF cause \in DOMAIN CAUSE_LABELS
                 THEN <<"Gemist gesprek - ">> \o caller \o suffix
                 ELSE <<"Gesprek ", richting_nl, " - Beantwoord">> \o suffix
      omschrijving_regels ==
        << <<"Richting: ", richting_nl>>, <<"Nummer: ">> \o caller >>
        \o (IF callee # <<>> /\ callee # Onbekend THEN << <<"Gebeld: ">> \o callee >> ELSE <<>>)
        \o << <<"Duur: ">> \o duur_str >>
        \o (IF cause # "" /\ cause \in DOMAIN CAUSE_LABELS
            THEN << <<"Reden: ", CAUSE_LABELS[cause]>> >> ELSE <<>>)
        \o (IF agent # "" THEN << <<"Medewerker: ", agent>> >> ELSE <<>>)
      task == [Subject |-> subject,
               Description |-> Join(omschrijving_regels, NL),
               Status |-> "Voltooid",
               CallDurationInSeconds |-> duration,
               CallObject |-> rinkel_id,
               TaskSubtype |-> "Call"]
      withDate == IF activity_date # "" THEN [ActivityDate |-> activity_date] ELSE EmptyDict
  IN WithWhatId(DictUpdate(task, withDate), weborder_id)

\* ------------------------------------------------- insights
\* ", ".join(topics) for a list, the value itself for a string
TopicsText(topics) ==
  IF topics.kind = "list"
  THEN Join([j \in 1..Len(topics.items) |-> <<topics.items[j]>>], <<", ">>)
  ELSE <<topics.text>>

TopicsTruthy(topics) ==
  IF topics.kind = "list" THEN topics.items # <<>> ELSE topics.text # ""

NoTopics == [kind |-> "str", text |-> ""]

_insights_lines(insights) ==
  LET lines ==
        (IF Get(insights, "summary", "") # ""
         THEN << NL \o <<"--- AI Samenvatting ---">> \o NL \o <<insights["summary"]>> >>
         ELSE <<>>)
        \o (IF Get(insights, "sentiment", "") # ""
            THEN << <<"Sentiment: ", insights["sentiment"]>> >> ELSE <<>>)
        \o (IF TopicsTruthy(Get(insights, "topics", NoTopics))
            THEN << <<"Onderwerpen: ">> \o TopicsText(insights["topics"]) >> ELSE <<>>)
  IN Join(lines, NL)

\* line 338: data.get("insights") or data
InsightsOf(data) ==
  IF ~IsEmpty(Get(data, "insights", EmptyDict)) THEN data["insights"] ELSE data

\* line 352 without the current description
nieuwe_beschrijving_overwrite(extra_tekst, huidige_beschrijving) == extra_tekst

\* line 352
nieuwe_beschrijving(extra_tekst, huidige_beschrijving) ==
  extra_tekst \o (IF huidige_beschrijving # <<>>
                  THEN NL \o NL \o huidige_beschrijving ELSE <<>>)

\* ------------------------------------------------- webhook inputs
\* call-ended notifications (request bodies of /webhook/callend)
EvMulti ==
  [id |-> "c1", callerNumber |-> PhoneE164, direction |-> "inbound",
   duration |-> 65, datetime |-> "2026-02-22T19:58:00Z"]

EvOne ==
  [callId |-> "c2", callerNumber |-> PhoneOne, direction |-> "outbound",
   callDuration |-> 7, cause |-> "NO_ANSWER", callRecordingUrl |-> "https://rec/2"]

EvBare == [direction |-> "inbound"]

CallEndEvents == {EvMulti, EvOne, EvBare}

\* call-insights notifications (request bodies of /webhook/callinsights)
InsNested ==
  [id |-> "c1",
   insights |-> [summary |-> "Klant vraagt status", sentiment |-> "positief",
                 topics |-> [kind |-> "list", items |-> <<"order", "levering">>]]]

InsFlat ==
  [callId |-> "c0", summary |-> "Retour", topics |-> [kind |-> "str", text |-> "retour"]]

InsNoId == [insights |-> [sentiment |-> "neutraal"]]

\* a second notification for the call of InsFlat, with other insights
InsLate == [call_id |-> "c0", insights |-> [sentiment |-> "negatief"]]

InsightsEvents == {InsNested, InsFlat, InsNoId, InsLate}

\* what the Rinkel API may answer to one fetch of the CDR of a call
UpstreamResponses(call_id) ==
  IF call_id = "c1" THEN {RespError, RespOk(CdrIncomplete), RespOk(CdrComplete)}
  ELSE {RespError, RespOk(CdrAnonymous)}

\* Tasks of the store that this server did not write: both carry the
\* CallObject "c0", the first has no Description (null)
LegacyTask ==
  [Subject |-> <<"Handmatig gelogd">>, Status |-> "Voltooid", CallObject |-> "c0",
   TaskSubtype |-> "Call"]

LegacyNote == <<"Handmatige notitie">>

LegacyTaskNoted ==
  [Subject |-> <<"Handmatig gelogd">>, Description |-> LegacyNote, Status |-> "Voltooid",
   CallObject |-> "c0", TaskSubtype |-> "Call", WhatId |-> "W3"]

InitialTasks == <<LegacyTask, LegacyTaskNoted>>

\* ------------------------------------------------- state
Threads == 1..MaxEvents
Handlers == 1..MaxEvents

\* deliveries so far
Delivered ==
  Cardinality({t \in Threads : ce[t].pc # "idle"})
  + Cardinality({h \in Handlers : ci[h].pc # "idle"})

\* A call-ended thread: `event` is the request body, `data` the thread's copy
\* of it, `created` the ids of the Tasks its sf.Task.create calls returned (the
\* logged results), `failed` whether the except-clause of line 314 was
\* entered, `prior` the threads that had finished when the request arrived,
\* `unavailable` whether a fetch of the CDR was made and every attempt of it
\* raised or returned an incomplete record.
IdleThread ==
  [pc |-> "idle", event |-> EmptyDict, data |-> EmptyDict, weborder_ids |-> <<>>,
   created |-> <<>>, failed |-> FALSE, prior |-> {}, response |-> "none",
   unavailable |-> FALSE]

IdleHandler ==
  [pc |-> "idle", data |-> EmptyDict, task_ids |-> <<>>, i |-> 0,
   huidige_beschrijving |-> <<>>, response |-> "none"]

IdleFetch == [poging |-> 0, log |-> <<>>, returned |-> FALSE, result |-> EmptyDict]

\* no function is being applied on its own
NoCall == [stage |-> "none"]

\* the server with no request in progress
Idle ==
  /\ tasks = InitialTasks
  /\ ce = [t \in Threads |-> IdleThread]
  /\ ci = [h \in Handlers |-> IdleHandler]
  /\ ft = IdleFetch

Init ==
  /\ Idle
  /\ fn = NoCall

\* ------------------------------------------------- call-ended
\* webhook_callend: parse the body, start the background thread on a copy
\* of the data and answer at once
\* variant: the handler starts the thread but holds its answer back
webhook_callend_waiting(t, event) ==
  /\ ce[t].pc = "idle"
  /\ Delivered < MaxEvents
  /\ \A u \in 1..(t - 1) : ce[u].pc # "idle"
  /\ ce' = [ce EXCEPT ![t] =
              [@ EXCEPT !.pc = "enrich", !.event = event, !.data = event,
                        !.prior = {u \in Threads : ce[u].pc = "done"}]]
  /\ UNCHANGED <<tasks, ci, ft, fn>>

webhook_callend(t, event) ==
  /\ ce[t].pc = "idle"
  /\ Delivered < MaxEvents
  /\ \A u \in 1..(t - 1) : ce[u].pc # "idle"
  /\ ce' = [ce EXCEPT ![t] =
              [@ EXCEPT !.pc = "enrich", !.event = event, !.data = event,
                        !.prior = {u \in Threads : ce[u].pc = "done"},
                        !.response = "ok"]]
  /\ UNCHANGED <<tasks, ci, ft, fn>>

\* lines 294-295
WithRecordingUrl(data) ==
  IF Get(data, "recordingUrl", "") = "" /\ Get(data, "callRecordingUrl", "") # ""
  THEN DictUpdate(data, [recordingUrl |-> data["callRecordingUrl"]])
  ELSE data

\* lines 288-295 of _process_callend, given the API's responses
EnrichedData(data, resps) ==
  LET cdr_data == IF CallId(data) # "" THEN enrich_data_from_cdr(resps) ELSE EmptyDict
  IN WithRecordingUrl(IF ~IsEmpty(cdr_data) THEN DictUpdate(data, cdr_data) ELSE data)

\* a response that raised or carries a CDR with neither e164 nor anonymous
ResponseUnusable(resp) ==
  IF resp.status = "error" THEN TRUE
  ELSE LET ext == Get(resp.data, "externalNumber", EmptyDict)
       IN Get(ext, "e164", <<>>) = <<>> /\ ~Get(ext, "anonymous", FALSE)

\* the fetch was made and none of its attempts gave a usable record
Unavailable(data, resps) ==
  CallId(data) # "" /\ \A n \in 1..MaxPogingen : ResponseUnusable(resps[n])

process_enrich(t) ==
  /\ ce[t].pc = "enrich"
  /\ \E resps \in [1..MaxPogingen -> UpstreamResponses(CallId(ce[t].data))] :
       ce' = [ce EXCEPT ![t] =
                [@ EXCEPT !.pc = "match", !.data = EnrichedData(ce[t].data, resps),
                          !.unavailable = Unavailable(ce[t].data, resps)]]
  /\ UNCHANGED <<tasks, ci, ft, fn>>

\* variant: the failed store operation is tried again
Caught_retry(rec) == [rec EXCEPT !.failed = TRUE]

\* lines 314-315: the exception is logged and the thread ends
Caught(rec) == [rec EXCEPT !.pc = "done", !.failed = TRUE]

\* lines 297-300: connect and match; either store call may raise
process_match(t) ==
  /\ ce[t].pc = "match"
  /\ \E ok \in BOOLEAN :
       IF ok
       THEN LET phone == Get(ce[t].data, "callerNumber", <<>>)
            IN ce' = [ce EXCEPT ![t] =
                        [@ EXCEPT !.pc = "create",
                                  !.weborder_ids =
                                     IF phone # <<>> THEN find_weborders_by_phone(WebOrders, phone)
                                     ELSE <<>>]]
       ELSE ce' = [ce EXCEPT ![t] = Caught(@)]
  /\ UNCHANGED <<tasks, ci, ft, fn>>

\* the WebOrder the next Task.create of the thread links to ("" for None)
NextWebOrder(weborder_ids, n) ==
  IF weborder_ids = <<>> THEN "" ELSE weborder_ids[n + 1]

\* the for-loop of line 309 left after its first pass
LastCreate_first(weborder_ids, n) == TRUE

\* whether the thread returns after its n-th Task.create (lines 302-312)
LastCreate(weborder_ids, n) ==
  weborder_ids = <<>> \/ n >= Len(weborder_ids)

\* one sf.Task.create of lines 304-305 or 310-311; it may raise
process_create(t) ==
  /\ ce[t].pc = "create"
  /\ \E ok \in BOOLEAN :
       IF ok
       THEN LET n == Len(ce[t].created)
                task == build_task(ce[t].data, NextWebOrder(ce[t].weborder_ids, n))
            IN /\ tasks' = Append(tasks, task)
               /\ ce' = [ce EXCEPT ![t] =
                           [@ EXCEPT !.created = Append(@, Len(tasks) + 1),
                                     !.pc = IF LastCreate(ce[t].weborder_ids, n + 1)
                                            THEN "done" ELSE "create"]]
       ELSE /\ ce' = [ce EXCEPT ![t] = Caught(@)]
            /\ UNCHANGED tasks
  /\ UNCHANGED <<ci, ft, fn>>

\* ------------------------------------------------- call-insights
\* webhook_callinsights up to the lookup (lines 334-346)
webhook_callinsights(h, data) ==
  /\ ci[h].pc = "idle"
  /\ Delivered < MaxEvents
  /\ \A g \in 1..(h - 1) : ci[g].pc # "idle"
  /\ \E ok \in BOOLEAN :
       IF ok
       THEN LET task_ids == find_tasks_by_rinkel_id(tasks, CallId(data))
            IN ci' = [ci EXCEPT ![h] =
                        IF task_ids = <<>>
                        THEN [@ EXCEPT !.pc = "done", !.data = data, !.response = "not_found"]
                        ELSE [@ EXCEPT !.pc = "get", !.data = data,
                                       !.task_ids = task_ids, !.i = 1]]
       ELSE ci' = [ci EXCEPT ![h] = [@ EXCEPT !.pc = "done", !.data = data,
                                               !.response = "error"]]
  /\ UNCHANGED <<tasks, ce, ft, fn>>

\* lines 350-351: sf.Task.get and the current description
callinsights_get(h) ==
  /\ ci[h].pc = "get"
  /\ \E ok \in BOOLEAN :
       IF ok
       THEN ci' = [ci EXCEPT ![h] =
                     [@ EXCEPT !.pc = "update",
                               !.huidige_beschrijving =
                                  Get(tasks[ci[h].task_ids[ci[h].i]], "Description", <<>>)]]
       ELSE ci' = [ci EXCEPT ![h] = [@ EXCEPT !.pc = "done", !.response = "error"]]
  /\ UNCHANGED <<tasks, ce, ft, fn>>

\* the update written as a new record
TaskUpdate_create(store, task_id, description) ==
  Append(store, DictUpdate(store[task_id], [Description |-> description]))

\* sf.Task.update(task_id, {"Description": ...})
TaskUpdate(store, task_id, description) ==
  [store EXCEPT ![task_id] = DictUpdate(@, [Description |-> description])]

\* lines 352-356: build the new description, update, next task or answer
callinsights_update(h) ==
  /\ ci[h].pc = "update"
  /\ \E ok \in BOOLEAN :
       IF ok
       THEN LET extra_tekst == _insights_lines(InsightsOf(ci[h].data))
                task_id == ci[h].task_ids[ci[h].i]
            IN /\ tasks' = TaskUpdate(tasks, task_id,
                              nieuwe_beschrijving(extra_tekst, ci[h].huidige_beschrijving))
               /\ ci' = [ci EXCEPT ![h] =
                           IF ci[h].i = Len(ci[h].task_ids)
                           THEN [@ EXCEPT !.pc = "done", !.response = "ok",
                                          !.huidige_beschrijving = <<>>]
                           ELSE [@ EXCEPT !.pc = "get", !.i = @ + 1,
                                          !.huidige_beschrijving = <<>>]]
       ELSE /\ ci' = [ci EXCEPT ![h] = [@ EXCEPT !.pc = "done", !.response = "error"]]
            /\ UNCHANGED tasks
  /\ UNCHANGED <<ce, ft, fn>>

Next ==
  \/ \E t \in Threads, event \in CallEndEvents : webhook_callend(t, event)
  \/ \E t \in Threads : process_enrich(t)
  \/ \E t \in Threads : process_match(t)
  \/ \E t \in Threads : process_create(t)
  \/ \E h \in Handlers, data \in InsightsEvents : webhook_callinsights(h, data)
  \/ \E h \in Handlers : callinsights_get(h)
  \/ \E h \in Handlers : callinsights_update(h)

Spec == Init /\ [][Next]_vars

\* ------------------------------------------------- the fetcher on its own
\* one iteration of the for-loop of enrich_data_from_cdr
fetch_attempt(resp) ==
  /\ ~ft.returned
  /\ ft.poging < MaxPogingen
  /\ LET a == FetchAttempt(ft.poging, resp)
     IN ft' = IF a.ret
              THEN [ft EXCEPT !.log = Append(@, resp), !.returned = TRUE, !.result = a.result]
              ELSE [ft EXCEPT !.log = Append(@, resp), !.poging = @ + 1]
  /\ UNCHANGED <<tasks, ce, ci, fn>>

\* line 105: the loop is exhausted
fetch_give_up ==
  /\ ~ft.returned
  /\ ft.poging >= MaxPogingen
  /\ ft' = [ft EXCEPT !.returned = TRUE, !.result = EmptyDict]
  /\ UNCHANGED <<tasks, ce, ci, fn>>

NextFetch ==
  \/ \E resp \in Responses : fetch_attempt(resp)
  \/ fetch_give_up

SpecFetch == Init /\ [][NextFetch]_vars

\* ------------------------------------------------- the matcher on its own
\* a store in which more than LIMIT newer records pass the LIKE filter of
\* the number 0612345678 without being that number, and one older record is
\* that number
CrowdedWebOrders ==
  [j \in 1..(QueryLimit + 1) |->
     IF j <= QueryLimit
     THEN [Id |-> ToString(j),
           phone |-> <<"1", "0", "6", " ", "1", "2", "3", "4", "5", "6", "7", "8">>]
     ELSE [Id |-> ToString(j),
           phone |-> <<"0", "6", " ", "1", "2", "3", "4", "5", "6", "7", "8">>]]

\* a store with short, blank and free-text phone fields
ShortWebOrders ==
  << [Id |-> "S1", phone |-> <<"1", "2", "3", "4", "5">>],
     [Id |-> "S2", phone |-> <<"1", "2", " ", "3", "4", "-", "5">>],
     [Id |-> "S3", phone |-> <<"1", "2", "3", "4", "5", "6">>],
     [Id |-> "S4", phone |-> <<"n", "/", "a">>],
     [Id |-> "S5", phone |-> <<"7">>] >>

WebOrderStores == {WebOrders, CrowdedWebOrders, ShortWebOrders, <<>>}

\* the phone strings find_weborders_by_phone is called with
QueryPhones ==
  {PhoneE164, PhoneLocalized, PhoneCallee, PhoneOne, PhoneNone, Anoniem, <<>>,
   <<"0", "6", "1", "2", "3", "4", "5", "6", "7", "8">>,
   <<"0", "6", "-", "1", "2", "3", ".", "4", "5", "6", ".", "7", "8">>,
   <<"0", "0", "3", "1", "6", "1", "2", "3", "4", "5", "6", "7", "8">>,
   <<"0", "6", " ", "1", "2", "3", "4", "5", "6", "7", "9">>,
   <<"1", "2", "3", "4", "5">>,
   <<"1", "-", "2", "-", "3", "-", "4", "-", "5">>,
   <<"1", "2", "3", "4", "5", "6">>,
   <<"7">>,
   <<"(", "7", ")">>,
   <<" ", "-">>}

MatchCall(sf, phone) ==
  [stage |-> "start", sf |-> sf, phone |-> phone, queried |-> FALSE,
   candidates |-> <<>>, weborder_ids |-> <<>>]

InitMatch ==
  /\ Idle
  /\ fn \in {MatchCall(sf, phone) : sf \in WebOrderStores, phone \in QueryPhones}

\* lines 145-147: nothing left of the number after normalization
match_reject ==
  /\ fn.stage = "start"
  /\ normalize_phone(fn.phone) = <<>>
  /\ fn' = [fn EXCEPT !.stage = "done", !.weborder_ids = <<>>]
  /\ UNCHANGED <<tasks, ce, ci, ft>>

\* lines 149-160: the LIKE query is sent to the store
match_query ==
  /\ fn.stage = "start"
  /\ normalize_phone(fn.phone) # <<>>
  /\ fn' = [fn EXCEPT !.stage = "queried", !.queried = TRUE,
                      !.candidates =
                         WebOrderQuery(fn.sf, build_like_pattern(normalize_phone(fn.phone)))]
  /\ UNCHANGED <<tasks, ce, ci, ft>>

\* lines 162-178: the candidates are compared in process
match_filter ==
  /\ fn.stage = "queried"
  /\ fn' = [fn EXCEPT !.stage = "done",
                      !.weborder_ids =
                         ExactMatches(fn.candidates, normalize_phone(fn.phone))]
  /\ UNCHANGED <<tasks, ce, ci, ft>>

NextMatch ==
  \/ match_reject
  \/ match_query
  \/ match_filter

SpecMatch == InitMatch /\ [][NextMatch]_vars

\* ------------------------------------------------- normalize_phone on its own
\* national numbers (the digits after the trunk zero / the country code)
NationalNumbers ==
  {<<"6", "1", "2", "3", "4", "5", "6", "7", "8">>,
   <<"6", "1", "2", "3", "4", "5", "6", "7", "9">>,
   <<"1", "8", "3", "6", "4", "6", "3", "5", "3">>,
   <<"3", "1", "6", "1", "2", "3", "4", "5", "6">>,
   <<"6", "1", "2", "3", "4", "5", "6", "7", "8", "9">>,
   <<"3", "1", "6", "1", "2", "3", "4", "5", "6", "7", "8">>}

\* the digits of a number in one of its written forms
Forms == {"intl", "local", "bare", "double"}

FormDigits(d, form) ==
  CASE form = "intl" -> <<"3", "1">> \o d
    [] form = "local" -> <<"0">> \o d
    [] form = "bare" -> d
    [] form = "double" -> <<"3", "1", "3", "1">> \o d

\* non-digit characters before, between and after the digits
Styles == {"plain", "plus", "spaced", "noted"}

Decorate(digits, style) ==
  CASE style = "plain" -> digits
    [] style = "plus" -> <<"+">> \o digits
    [] style = "spaced" -> Join([i \in 1..Len(digits) |-> <<digits[i]>>], <<" ">>)
    [] style = "noted" ->
         <<"(">> \o SubSeq(digits, 1, 2) \o <<")", "-">> \o SubSeq(digits, 3, Len(digits))
           \o <<" ", "(", "b", "e", "l", ")">>

\* strings that are not a written number
RawPhones ==
  {<<>>, Anoniem, <<"3", "1", "6", "1", "2">>, <<"+", "3", "1">>,
   <<"3", "1", "0", "0", "0", "0", "0", "0", "0", "0">>, <<" ", "-", "(", ")">>}

PhoneCall(d, form, style, phone) ==
  [stage |-> "start", d |-> d, form |-> form, style |-> style, phone |-> phone,
   once |-> <<>>, twice |-> <<>>]

InitPhone ==
  /\ Idle
  /\ fn \in {PhoneCall(d, form, style, Decorate(FormDigits(d, form), style)) :
               d \in NationalNumbers, form \in Forms, style \in Styles}
            \cup {PhoneCall(<<>>, "raw", "plain", phone) : phone \in RawPhones}

\* normalize_phone applied to the string
phone_normalize ==
  /\ fn.stage = "start"
  /\ fn' = [fn EXCEPT !.stage = "once", !.once = normalize_phone(fn.phone)]
  /\ UNCHANGED <<tasks, ce, ci, ft>>

\* normalize_phone applied to its own result
phone_renormalize ==
  /\ fn.stage = "once"
  /\ fn' = [fn EXCEPT !.stage = "twice", !.twice = normalize_phone(fn.once)]
  /\ UNCHANGED <<tasks, ce, ci, ft>>

NextPhone ==
  \/ phone_normalize
  \/ phone_renormalize

SpecPhone == InitPhone /\ [][NextPhone]_vars

\* ------------------------------------------------- build_task on its own
\* a key of the call data that may be missing
Opt(k, o) == IF o.has THEN [x \in {k} |-> o.value] ELSE EmptyDict

Missing(falsy) == [has |-> FALSE, value |-> falsy]

Given(values) == {[has |-> TRUE, value |-> v] : v \in values}

\* the cause codes of CAUSE_LABELS, a code outside the table and the empty code
CauseOptions ==
  {Missing("")} \cup Given({"", "OUTSIDE_OPERATION_TIMES", "NO_ANSWER", "BUSY", "REJECTED",
                            "VOICEMAIL", "ANSWERED"})

DirectionOptions == {Missing("")} \cup Given({"inbound", "outbound", "internal"})

CalleeOptions == {Missing(<<>>)} \cup Given({PhoneCallee})

AgentOptions == {Missing("")} \cup Given({"Kristel"})

RecordingOptions == {Missing("")} \cup Given({"https://rec/1"})

DatetimeOptions == {Missing("")} \cup Given({"2026-02-22T19:58:00Z"})

\* the data of a call as _process_callend hands them to build_task
CallData(cause, direction, callee, agent, recording, datetime) ==
  DictUpdate([id |-> "c1", callerNumber |-> PhoneLocalized, duration |-> 65],
    DictUpdate(Opt("cause", cause),
      DictUpdate(Opt("direction", direction),
        DictUpdate(Opt("calleeNumber", callee),
          DictUpdate(Opt("agentName", agent),
            DictUpdate(Opt("recordingUrl", recording), Opt("datetime_str", datetime)))))))

BuildCall(call_data, weborder_id) ==
  [stage |-> "start", call_data |-> call_data, weborder_id |-> weborder_id,
   task |-> EmptyDict]

InitBuild ==
  /\ Idle
  /\ \E cause \in CauseOptions, direction \in DirectionOptions, callee \in CalleeOptions,
        agent \in AgentOptions, recording \in RecordingOptions, datetime \in DatetimeOptions,
        weborder_id \in {"", "W1"} :
       fn = BuildCall(CallData(cause, direction, callee, agent, recording, datetime),
                      weborder_id)

\* build_task(call_data, weborder_id) is evaluated
build_task_call ==
  /\ fn.stage = "start"
  /\ fn' = [fn EXCEPT !.stage = "built", !.task = build_task(fn.call_data, fn.weborder_id)]
  /\ UNCHANGED <<tasks, ce, ci, ft>>

NextBuild == build_task_call

SpecBuild == InitBuild /\ [][NextBuild]_vars

\* test_cases of test_verbinding.py: the number Rinkel reports, the stored
\* phone field, the expected outcome
test_cases ==
  << <<PhoneE164, <<"0", "6", " ", "1", "2", "3", "4", "5", "6", "7", "8">>, TRUE>>,
     <<PhoneE164, <<"0", "6", "1", "2", "3", "4", "5", "6", "7", "8">>, TRUE>>,
     <<PhoneE164, <<"0", "6", " ", "1", "2", "3", " ", "4", "5", "6", " ", "7", "8">>, TRUE>>,
     <<PhoneE164, <<"+", "3", "1", " ", "6", " ", "1", "2", "3", "4", "5", "6", "7", "8">>, TRUE>>,
     <<PhoneE164, <<"0", "6", "-", "1", "2", "3", ".", "4", "5", "6", ".", "7", "8", " ",
                    "(", "b", "e", "l", " ", "o", "v", "e", "r", "d", "a", "g", ")">>, TRUE>>,
     <<PhoneE164, <<"0", "6", " ", "1", "2", "3", "4", "5", "6", "7", "9">>, FALSE>>,
     <<PhoneOne, <<"0", "1", "8", "3", " ", "6", "4", "6", " ", "3", "5", "3">>, TRUE>> >>

\* ================================================= properties
CallIds == {CallId(e) : e \in CallEndEvents \cup InsightsEvents} \ {""}

WebOrderIds == {WebOrders[j].Id : j \in 1..Len(WebOrders)}

\* the call-ended threads / call-insights handlers started for call c
ThreadsOf(c) == {t \in Threads : ce[t].pc # "idle" /\ CallId(ce[t].event) = c}

HandlersOf(c) == {h \in Handlers : ci[h].pc # "idle" /\ CallId(ci[h].data) = c}

\* the insight block a handler renders
Block(h) == _insights_lines(InsightsOf(ci[h].data))

Description(j) == Get(tasks[j], "Description", <<>>)

Range(seq) == {seq[n] : n \in 1..Len(seq)}

\* C1: for a call with one call-ended and one call-insights event, once the
\* background processing and the insights handler have both finished (and no
\* store call failed), the store holds a Task with that CallObject whose
\* description contains the rendered insight block, whatever the order.
C1_InsightsNeverLost ==
  \A c \in CallIds :
    (/\ Cardinality(ThreadsOf(c)) = 1
     /\ Cardinality(HandlersOf(c)) = 1
     /\ \A t \in ThreadsOf(c) : ce[t].pc = "done" /\ ~ce[t].failed
     /\ \A h \in HandlersOf(c) : ci[h].pc = "done" /\ ci[h].response # "error")
    => \E j \in 1..Len(tasks), h \in HandlersOf(c) :
         tasks[j].CallObject = c /\ Contains(Description(j), Block(h))

\* C2: a call-ended processing whose matcher returned no WebOrder and whose
\* store calls all succeeded has created exactly one Task, and that Task has
\* no WhatId; at no moment has it created more than one.
C2_UnmatchedCreatesOne ==
  \A t \in Threads :
    ce[t].weborder_ids = <<>> =>
      /\ Len(ce[t].created) <= 1
      /\ (ce[t].pc = "done" /\ ~ce[t].failed) =>
            /\ Len(ce[t].created) = 1
            /\ ~Has(tasks[ce[t].created[1]], "WhatId")

C2_Witness ==
  \E t \in Threads :
    /\ ce[t].pc = "done" /\ ~ce[t].failed
    /\ ~Has(ce[t].data, "callerNumber")
    /\ ce[t].weborder_ids = <<>>
    /\ Len(ce[t].created) = 1

\* C3: a call-ended processing whose matcher returned k >= 1 distinct
\* WebOrder ids and whose store calls all succeeded has created exactly k
\* Tasks, the n-th linked to the n-th matched id, each with CallObject equal
\* to the call identifier of the event.
C3_OneTaskPerMatch ==
  \A t \in Threads :
    (ce[t].pc = "done" /\ ~ce[t].failed /\ Len(ce[t].weborder_ids) >= 1) =>
      /\ Len(ce[t].created) = Len(ce[t].weborder_ids)
      /\ \A m, n \in 1..Len(ce[t].weborder_ids) :
           m # n => ce[t].weborder_ids[m] # ce[t].weborder_ids[n]
      /\ \A n \in 1..Len(ce[t].created) :
           /\ Get(tasks[ce[t].created[n]], "WhatId", "") = ce[t].weborder_ids[n]
           /\ tasks[ce[t].created[n]].CallObject = CallId(ce[t].event)

C3_Witness ==
  \E t \in Threads :
    /\ ce[t].pc = "done" /\ ~ce[t].failed
    /\ Len(ce[t].weborder_ids) = 2
    /\ Len(ce[t].created) = 2

\* C4: a call-ended event processed again after an earlier processing of the
\* same event had completed without failure creates no further Task.
C4_CallEndIdempotent ==
  \A t \in Threads :
    (/\ ce[t].pc = "done" /\ ~ce[t].failed
     /\ \E u \in ce[t].prior : ce[u].event = ce[t].event /\ ~ce[u].failed)
    => ce[t].created = <<>>

\* C5: while a call has had at most one call-ended and at most one
\* call-insights event, the store holds at most one Task per call identifier
\* and linked WebOrder (or no link); and every Task added to the store was
\* created by a call-ended processing, never by the insights handler.
C5_AtMostOnePerCall ==
  /\ \A c \in CallIds :
       (Cardinality(ThreadsOf(c)) <= 1 /\ Cardinality(HandlersOf(c)) <= 1) =>
         \A w \in WebOrderIds \cup {""} :
           Cardinality({j \in 1..Len(tasks) :
                          tasks[j].CallObject = c /\ Get(tasks[j], "WhatId", "") = w}) <= 1
  /\ \A j \in (Len(InitialTasks) + 1)..Len(tasks) :
       \E t \in Threads : j \in Range(ce[t].created)

C5_Witness ==
  \E c \in CallIds :
    /\ Cardinality(ThreadsOf(c)) = 1 /\ Cardinality(HandlersOf(c)) = 1
    /\ \A t \in ThreadsOf(c) : ce[t].pc = "done" /\ Len(ce[t].created) = 2
    /\ \A h \in HandlersOf(c) : ci[h].pc = "done" /\ ci[h].response = "ok"

\* a successful update step of handler h
UpdateDone(h) ==
  ci[h].pc = "update" /\ ci'[h] # ci[h] /\ ci'[h].response # "error"

C7_InsightsIdempotent ==
  \A j \in 1..Len(tasks), data \in InsightsEvents :
    Occurrences(Description(j), _insights_lines(InsightsOf(data))) <= 1

\* C8: once the insights handler has finished after a lookup that found no
\* Task for its (non-empty) call identifier, a Task with that CallObject
\* exists and its description contains the insight block.
C8_CreateOnDemand ==
  \A h \in Handlers :
    (/\ ci[h].pc = "done" /\ ci[h].response # "error"
     /\ ci[h].task_ids = <<>> /\ CallId(ci[h].data) # "")
    => \E j \in 1..Len(tasks) :
         tasks[j].CallObject = CallId(ci[h].data) /\ Contains(Description(j), Block(h))

\* the completeness predicate: caller number populated or marked anonymous
Complete(cdr) ==
  LET ext == Get(cdr, "externalNumber", EmptyDict)
  IN Get(ext, "e164", <<>>) # <<>> \/ Get(ext, "anonymous", FALSE)

\* an attempt that raised or returned an incomplete record
AttemptFailed(resp) == IF resp.status = "error" THEN TRUE ELSE ~Complete(resp.data)

\* C9: the fetcher makes at most 3 attempts; every attempt but the last one
\* made raised or returned an incomplete record; and when the last attempt
\* made returned a complete record, the fetcher has returned that record's
\* data and makes no further attempt.
C9_FetchRetry ==
  /\ Len(ft.log) <= 3
  /\ \A n \in 1..(Len(ft.log) - 1) : AttemptFailed(ft.log[n])
  /\ (ft.log # <<>> /\ ~AttemptFailed(ft.log[Len(ft.log)])) =>
       /\ ft.returned
       /\ ft.result = CdrResult(ft.log[Len(ft.log)].data)
       /\ Get(ft.result, "callerNumber", <<>>) # <<>>

C9_Witness ==
  /\ ft.returned
  /\ Len(ft.log) = 2
  /\ AttemptFailed(ft.log[1])
  /\ ~AttemptFailed(ft.log[2])

\* C10: when each of the 3 attempts raised or returned an incomplete record,
\* the fetcher returns the empty result.
C10_AllFailedReturnsEmpty ==
  (/\ ft.returned
   /\ Len(ft.log) = 3
   /\ \A n \in 1..3 : AttemptFailed(ft.log[n]))
  => IsEmpty(ft.result)

\* C11: when the upstream record was unavailable for a call-ended event
\* (every attempt raised or returned an incomplete record), the data the
\* thread works with are those of the notification (with the recording link
\* of the notification copied), the match is made on the notification's
\* caller number, and a processing that ends without store failure has
\* written at least one Task.
C11_DegradesToNotification ==
  \A t \in Threads :
    ce[t].unavailable =>
      /\ ce[t].data = WithRecordingUrl(ce[t].event)
      /\ (ce[t].pc \in {"create", "done"} /\ ~ce[t].failed) =>
           ce[t].weborder_ids =
             find_weborders_by_phone(WebOrders, Get(ce[t].event, "callerNumber", <<>>))
      /\ (ce[t].pc = "done" /\ ~ce[t].failed) => ce[t].created # <<>>

\* the ids of the records of a store whose phone field, normalized, equals
\* the normalized query
ExactIds(sf, phone) ==
  {sf[j].Id : j \in {k \in 1..Len(sf) :
                       normalize_phone(Get(sf[k], "phone", <<>>)) = normalize_phone(phone)}}

\* C12: for a query the matcher does not reject as too short, the ids
\* find_weborders_by_phone returns are exactly the ids of the stored records
\* whose normalized phone field equals the normalized query, whatever the
\* store holds: the capped LIKE pre-filter drops no exact match and the
\* comparison keeps nothing else.
C12_ExactlyTheMatches ==
  (fn.stage = "done" /\ Len(normalize_phone(fn.phone)) >= 6) =>
     Range(fn.weborder_ids) = ExactIds(fn.sf, fn.phone)

\* C13: a query whose normalized form has fewer than 6 digits never reaches
\* the store and gets the empty candidate set.
C13_ShortQueryRejected ==
  (fn.stage # "none" /\ Len(normalize_phone(fn.phone)) < 6) =>
     /\ ~fn.queried
     /\ fn.stage = "done" => fn.weborder_ids = <<>>

\* C14: normalize_phone is idempotent: applied to its own result it returns
\* that result, also when the digits after the removed "31" begin with "31".
C14_NormalizeIdempotent ==
  fn.stage = "twice" => fn.twice = fn.once

\* normalize_phone was applied twice to a number written as 3131..., whose
\* first result still holds the digits 31 after the leading zero
C14_Witness ==
  /\ fn.stage = "twice"
  /\ fn.form = "double"
  /\ SubSeq(fn.once, 1, 3) = <<"0", "3", "1">>
  /\ fn.once # SelectSeq(fn.phone, IsDigit)

\* the written number is the international or the local form of d
WrittenNumber == fn.stage \in {"once", "twice"} /\ fn.form \in {"intl", "local"}

\* C15: for a national number d of at least 9 digits, "31"+d and "0"+d in
\* any decoration normalize to "0"+d, no written form of another such number
\* normalizes to the same value, and each pair of the matching test table has
\* equal normalized values exactly when the table expects a match.
C15_SameNumberSameValue ==
  (WrittenNumber /\ Len(fn.d) >= 9) =>
     /\ fn.once = <<"0">> \o fn.d
     /\ \A d \in NationalNumbers \ {fn.d} : \A form \in {"intl", "local"} : \A style \in Styles :
          normalize_phone(Decorate(FormDigits(d, form), style)) # fn.once
     /\ \A n \in 1..Len(test_cases) :
          (normalize_phone(test_cases[n][1]) = normalize_phone(test_cases[n][2]))
            = test_cases[n][3]

\* the international form of a 9-digit number, written with other characters
\* around the digits, was normalized
C15_Witness ==
  /\ WrittenNumber
  /\ fn.form = "intl"
  /\ Len(fn.d) = 9
  /\ fn.style = "noted"
  /\ fn.once = <<"0">> \o fn.d

\* C16: every call-ended request handed to a background thread has been
\* answered with status ok, whatever state the thread is in (fetching,
\* matching, writing, finished, failed on the store), and a request not yet
\* received has no answer.
C16_CallEndAcknowledged ==
  \A t \in Threads :
    /\ ce[t].pc = "idle" => ce[t].response = "none"
    /\ ce[t].pc # "idle" => ce[t].response = "ok"

\* one request was answered ok and its thread failed on the store; another
\* was answered ok while its thread has not yet fetched, matched or written
C16_Witness ==
  \E t, u \in Threads :
    /\ ce[t].response = "ok" /\ ce[t].pc = "enrich" /\ ce[t].created = <<>>
    /\ ce[u].response = "ok" /\ ce[u].pc = "done" /\ ce[u].failed

\* handler h sends its response in this step
Answered(h) == ci[h].response = "none" /\ ci'[h].response # "none"

\* C17: when the call-insights handler answers ok, every Task in the store
\* whose CallObject is the event's identifier has been updated by it (it is
\* one of the records the handler went through to the end); when it answers
\* not_found, its lookup found no record and it has written nothing.
C17_ResponseReflectsOutcome ==
  [][\A h \in Handlers :
       Answered(h) =>
         /\ ci'[h].response = "ok" =>
              /\ ci'[h].i = Len(ci'[h].task_ids)
              /\ \A j \in 1..Len(tasks') :
                   tasks'[j].CallObject = CallId(ci'[h].data) => j \in Range(ci'[h].task_ids)
         /\ ci'[h].response = "not_found" =>
              /\ ci'[h].task_ids = <<>>
              /\ ci'[h].i = 0
              /\ tasks' = tasks]_vars

\* the cause codes that mean the call was not answered
NonAnswerCauses == {"OUTSIDE_OPERATION_TIMES", "NO_ANSWER", "BUSY", "REJECTED", "VOICEMAIL"}

\* position of the first atom of text equal to a (0 when there is none)
Pos(text, a) ==
  IF \E k \in 1..Len(text) : text[k] = a
  THEN CHOOSE k \in 1..Len(text) : text[k] = a /\ \A m \in 1..(k - 1) : text[m] # a
  ELSE 0

\* the description has a line that starts with the label
HasLine(text, label) ==
  \E k \in 1..Len(text) : text[k] = label /\ (k = 1 \/ text[k - 1] = "\n")

\* C18: the Task built for a call has the missed subject (the out-of-hours
\* one for OUTSIDE_OPERATION_TIMES) and a reason line exactly when the cause
\* is one of the five non-answer codes; otherwise the subject is the answered
\* one with "Inkomend" for inbound and "Uitgaand" for any other direction,
\* and there is no reason line.
C18_CauseDecidesSubject ==
  fn.stage = "built" =>
    LET cause == Get(fn.call_data, "cause", "")
        direction == Get(fn.call_data, "direction", "inbound")
        subject == fn.task.Subject
        missed == cause \in NonAnswerCauses
    IN /\ missed <=> HasLine(fn.task.Description, "Reden: ")
       /\ missed <=> subject[1] \in {"Gemist gesprek - ", "Gemist (buiten openingstijden) - "}
       /\ (subject[1] = "Gemist (buiten openingstijden) - ") <=> (cause = "OUTSIDE_OPERATION_TIMES")
       /\ ~missed =>
            SubSeq(subject, 1, 3) =
              <<"Gesprek ", IF direction = "inbound" THEN "Inkomend" ELSE "Uitgaand",
                " - Beantwoord">>

\* a Task was built for a voicemail call: missed subject, reason line
C18_Witness ==
  /\ fn.stage = "built"
  /\ Get(fn.call_data, "cause", "") = "VOICEMAIL"
  /\ fn.task.Subject[1] = "Gemist gesprek - "
  /\ Contains(fn.task.Description, <<"\n", "Reden: ", "Voicemail">>)

\* the labels of the description lines in their order
LineLabels == <<"Richting: ", "Nummer: ", "Gebeld: ", "Duur: ", "Reden: ", "Medewerker: ">>

\* C19: in the description built for a call, the callee number, the agent
\* name and the recording link each have a line exactly when the call data
\* hold that field, and the lines present stand in one fixed order with the
\* direction, number and duration lines.
C19_OptionalLines ==
  fn.stage = "built" =>
    LET text == fn.task.Description
    IN /\ HasLine(text, "Richting: ") /\ HasLine(text, "Nummer: ") /\ HasLine(text, "Duur: ")
       /\ HasLine(text, "Gebeld: ") <=> Has(fn.call_data, "calleeNumber")
       /\ HasLine(text, "Medewerker: ") <=> Has(fn.call_data, "agentName")
       /\ (\E k \in 1..Len(text) : text[k] = Get(fn.call_data, "recordingUrl", ""))
            <=> Has(fn.call_data, "recordingUrl")
       /\ \A a, b \in 1..Len(LineLabels) :
            (a < b /\ Pos(text, LineLabels[a]) > 0 /\ Pos(text, LineLabels[b]) > 0)
              => Pos(text, LineLabels[a]) < Pos(text, LineLabels[b])

\* the call of thread t, after the fetch, has an anonymous caller, a caller
\* number without digits, or no call identifier
Skippable(t) ==
  /\ ce[t].pc \in {"match", "create", "done"}
  /\ \/ Get(ce[t].data, "callerNumber", <<>>) = Anoniem
     \/ normalize_phone(Get(ce[t].data, "callerNumber", <<>>)) = <<>>
     \/ CallId(ce[t].data) = ""

\* C20: a call-ended event with an anonymous caller, a caller number that
\* normalizes to the empty string or an empty call identifier is skipped: at
\* no moment of its processing, and not when it has ended, has a Task been
\* written for it.
C20_Skipped ==
  \A t \in Threads : Skippable(t) => ce[t].created = <<>>

\* C21: once a store operation has failed in a call-ended processing that
\* matched k > 1 WebOrders, the thread has ended (its request was answered ok
\* long before), it takes no further step (nothing is retried, no Task is
\* created for the later matches), it has created fewer than k Tasks, and
\* the Tasks it created before the failure are still in the store, the n-th
\* linked to the n-th match.
C21_PartialWriteKept ==
  [][\A t \in Threads :
       /\ (ce'[t].failed /\ Len(ce'[t].weborder_ids) > 1) =>
            /\ ce'[t].pc = "done"
            /\ ce'[t].response = "ok"
            /\ Len(ce'[t].created) < Len(ce'[t].weborder_ids)
            /\ \A n \in 1..Len(ce'[t].created) :
                 /\ ce'[t].created[n] <= Len(tasks')
                 /\ Get(tasks'[ce'[t].created[n]], "WhatId", "") = ce'[t].weborder_ids[n]
                 /\ tasks'[ce'[t].created[n]].CallObject = CallId(ce'[t].event)
       /\ (ce[t].failed /\ Len(ce[t].weborder_ids) > 1) => ce'[t] = ce[t]]_vars

\* the second Task.create of a processing with two matches failed: the first
\* Task is in the store, the second match has none from this thread
C21_Witness ==
  \E t \in Threads :
    /\ ce[t].pc = "done" /\ ce[t].failed
    /\ Len(ce[t].weborder_ids) = 2
    /\ Len(ce[t].created) = 1
    /\ Get(tasks[ce[t].created[1]], "WhatId", "") = ce[t].weborder_ids[1]

\* C22: a step of a call-insights handler neither adds nor removes a Task;
\* a Task it changes has the CallObject of the handler's event, which is not
\* empty, and keeps every field but Description; a handler of an event with
\* an empty identifier has an empty lookup result and changes nothing.
C22_InsightsFrame ==
  [][ci' # ci =>
       /\ Len(tasks') = Len(tasks)
       /\ \A j \in 1..Len(tasks) :
            tasks'[j] # tasks[j] =>
              /\ \E h \in Handlers :
                   /\ ci'[h] # ci[h]
                   /\ CallId(ci[h].data) # ""
                   /\ tasks[j].CallObject = CallId(ci[h].data)
              /\ DOMAIN tasks'[j] = DOMAIN tasks[j] \cup {"Description"}
              /\ \A k \in DOMAIN tasks[j] \ {"Description"} : tasks'[j][k] = tasks[j][k]
       /\ \A h \in Handlers :
            (ci'[h] # ci[h] /\ CallId(ci'[h].data) = "") =>
              /\ ci'[h].task_ids = <<>>
              /\ ci'[h].pc = "done"
              /\ tasks' = tasks]_vars

\* an event without identifier was handled while the store holds a Task
\* with an empty CallObject: the handler found nothing and that Task has the
\* description it was created with
C22_Witness ==
  \E h \in Handlers, t \in Threads :
    /\ ci[h].pc = "done" /\ CallId(ci[h].data) = "" /\ ci[h].response = "not_found"
    /\ ce[t].pc = "done" /\ ce[t].created # <<>> /\ ce[t].prior = {}
    /\ tasks[ce[t].created[1]].CallObject = ""
    /\ tasks[ce[t].created[1]] = build_task(ce[t].data, "")

\* the description Task j had before any insights handler wrote to it
Original(j) ==
  IF j <= Len(InitialTasks) THEN Get(InitialTasks[j], "Description", <<>>)
  ELSE LET t == CHOOSE u \in Threads : j \in Range(ce[u].created)
           n == CHOOSE m \in 1..Len(ce[t].created) : ce[t].created[m] = j
       IN build_task(ce[t].data, NextWebOrder(ce[t].weborder_ids, n - 1)).Description

\* C23: when two call-insights handlers for the same call identifier have
\* both finished with ok, in whatever order their reads and writes were
\* interleaved, the description of every Task both of them updated contains
\* its original text and the insight blocks of both events.
C23_NoLostUpdate ==
  \A g, h \in Handlers :
    (/\ g # h
     /\ ci[g].pc = "done" /\ ci[g].response = "ok"
     /\ ci[h].pc = "done" /\ ci[h].response = "ok"
     /\ CallId(ci[g].data) = CallId(ci[h].data))
    => \A j \in Range(ci[g].task_ids) \cap Range(ci[h].task_ids) :
         /\ Contains(Description(j), Original(j))
         /\ Contains(Description(j), Block(g))
         /\ Contains(Description(j), Block(h))

====
